---- MODULE Spec2Model ----
(***************************************************************************)
(* Community verification of meter readings (api/src/routes/verify.py).    *)
(*                                                                         *)
(* The database tables are the variables users, readings and votes.  Every *)
(* castVote request runs in a database session of its own (txn[t]): the    *)
(* session keeps the objects it loaded in an identity map, changes them in *)
(* memory and writes the changed attributes at commit.  The session is     *)
(* created with autoflush=False (database.py), so a query never sees what  *)
(* the session has added or changed and not yet committed.  A request is   *)
(* split at its database round trips, so that requests interleave.         *)
(*                                                                         *)
(* Beside castVote the module holds delete_reading (sessions as well), the *)
(* verification queue, status and history (operators over the tables),     *)
(* and, one request at a time, the submission of readings                  *)
(* (api/src/routes/readings.py), the calibration of meters                 *)
(* (api/src/routes/meters.py) and the referral codes                       *)
(* (api/src/routes/users.py).  The referral columns of the                 *)
(* users table are the variable referrals; clock is the time, in days, of  *)
(* the last submission or calibration; a reading's id is its capture time. *)
(***************************************************************************)
EXTENDS Integers, Sequences, FiniteSets, Bags, TLC

\* ---------------------------------------------------------------- constants

VOTES_REQUIRED == 3
\* CONSENSUS_THRESHOLD = 0.67, kept as hundredths
CONSENSUS_THRESHOLD == 67
XP_FOR_VERIFICATION == 5
XP_BONUS_CONSENSUS == 10
\* owner.xp += 5
XP_OWNER_BONUS == 5
\* weight = vote.verifier_trust_score or 50
DEFAULT_WEIGHT == 50
\* User.trust_score default
DEFAULT_TRUST == 50
\* min(100, ...) and max(0, ...)
TRUST_MAX == 100
TRUST_MIN == 0

\* ------------------------------------------------------------------- bounds

\* Verifiers of the serial specification (user 1 owns the reading).
NumSerialVerifiers == 7
\* Verifiers that have not voted yet in the concurrent specification.
NumFreeVerifiers == 2
\* Sessions that run at the same time in the concurrent specification.
NumTxns == 2
\* Submissions and calibrations of the submission specification.
MaxReadings == 3
\* Users of the referral specification.
NumReferralUsers == 4
\* Votes a reading holds at most at the start of the decision specification.
MaxVotes == 6
\* Verifiers of the queue-driven specification.
NumQueueVerifiers == 4

\* ------------------------------------------------------------------ helpers

Min(a, b) == IF a <= b THEN a ELSE b

Max(a, b) == IF a >= b THEN a ELSE b

RECURSIVE Gcd(_, _)
Gcd(a, b) == IF b = 0 THEN a ELSE Gcd(b, a % b)

\* A float ratio num/den, kept exact in lowest terms; <<>> is NULL.
Ratio(num, den) == LET g == Gcd(num, den) IN <<num \div g, den \div g>>

NoScore == <<>>

\* An Optional column: NULL is <<>>, the value v is <<v>>.
Null == <<>>

Some(v) == <<v>>

Statuses == {"pending", "verified", "rejected", "disputed"}

Terminal == {"verified", "rejected", "disputed"}

\* VoteCreate bodies the model sends: <<vote, suggested_value given>>.
VoteInputs ==
    { <<"correct", FALSE>>, <<"incorrect", TRUE>>, <<"incorrect", FALSE>>,
      <<"unclear", FALSE>>, <<"maybe", FALSE>> }

NewUser(trust) ==
    [ trust_score |-> trust, xp |-> 0, total_readings |-> 0,
      verifications_performed |-> 0, verified_readings |-> 0 ]

\* Reading(...): the columns the handlers of the model read or write.
\* The confidence is kept in hundredths.
ReadingRow(owner, meter, method, normalized, value, conf, at, usage, days, flagged, reason) ==
    [ user_id |-> owner, meter_id |-> meter, capture_method |-> method,
      normalized_value |-> normalized,
      numeric_value |-> value, confidence |-> conf, captured_at |-> at,
      verification_status |-> "pending", verification_score |-> NoScore,
      usage_since_last |-> usage, days_since_last |-> days,
      flagged_for_review |-> flagged, flag_reason |-> reason ]

\* The first reading of meter 1, submitted by its owner.
NewReading(owner) ==
    ReadingRow(owner, 1, "live", "100", Some(100), 90, 1, Null, Null, FALSE,
               Null)

\* Meter(...): the owner, the type, the sample history and the last read.
NewMeter(owner, type) ==
    [ user_id |-> owner, meter_type |-> type, sample_readings |-> <<>>,
      last_read_at |-> Null ]

\* Device(...): a MeterPi of a user.
NewDevice(owner) ==
    [ user_id |-> owner, is_online |-> FALSE, last_reading_at |-> Null ]

\* generate_referral_code draws from these characters.
CodeChars == <<"A", "B", "C", "2">>

\* The referral code user u got at registration; the codes are unique.
CodeOf(u) ==
    << CodeChars[((u \div Len(CodeChars)) % Len(CodeChars)) + 1],
       CodeChars[(u % Len(CodeChars)) + 1] >>

\* The referral columns of User(...).
NewReferral(code) ==
    [ referral_code |-> code, referred_by_id |-> Null, referral_count |-> 0 ]

VoteRow(r, u, v, sv, trust) ==
    [ reading_id |-> r, verifier_id |-> u, vote |-> v,
      suggested_value |-> sv, verifier_trust_score |-> trust ]

VARIABLES users, readings, votes, txn, meters, devices, clock, referrals

vars == <<users, readings, votes, txn, meters, devices, clock, referrals>>

\* The tables no step of castVote touches.
others == <<meters, devices, clock, referrals>>

\* ------------------------------------------------------------------ queries

\* The rows of reading r, each with its verifier's live trust score in the
\* place of the stored one.
VotesOfReadingLive(table, r) ==
    LET rows == {w \in BagToSet(table) : w.reading_id = r}
        live(w) == [w EXCEPT !.verifier_trust_score =
                               users[w.verifier_id].trust_score]
    IN  [w \in {live(x) : x \in rows} |->
           table[CHOOSE x \in rows : live(x) = w]]

\* select(VerificationVote).where(reading_id == r): the committed rows.
VotesOfReading(table, r) ==
    LET rows == {w \in BagToSet(table) : w.reading_id = r}
    IN  [w \in rows |-> table[w]]

\* The rows of one (reading, verifier) pair.
VotesOfPair(table, r, u) ==
    LET rows == {w \in BagToSet(table) : w.reading_id = r /\ w.verifier_id = u}
    IN  [w \in rows |-> table[w]]

\* UniqueConstraint("reading_id", "verifier_id"): the INSERT of row fails.
ViolatesUniqueVoteOff(row, table) == FALSE

ViolatesUniqueVote(row, table) ==
    BagCardinality(VotesOfPair(table, row.reading_id, row.verifier_id)) > 0

\* reading.user_id == current_user.id
IsOwnReadingOff(reading, u) == FALSE

IsOwnReading(reading, u) == reading.user_id = u

\* ------------------------------------------------------- consensus decision

\* weight = vote.verifier_trust_score or 50: 0 is falsy in Python.
VoteWeight(score) == IF score = 0 THEN DEFAULT_WEIGHT ELSE score

RECURSIVE WeightOf(_, _)
WeightOf(seen, rows) ==
    IF rows = {} THEN 0
    ELSE LET w == CHOOSE x \in rows : TRUE
         IN  seen[w] * VoteWeight(w.verifier_trust_score)
               + WeightOf(seen, rows \ {w})

TotalWeight(seen) == WeightOf(seen, BagToSet(seen))

WeightedFor(seen, side) ==
    WeightOf(seen, {w \in BagToSet(seen) : w.vote = side})

\* ratio >= CONSENSUS_THRESHOLD, with ratio = weight / total (total > 0)
MeetsThresholdTwoThirds(weight, total) == weight * 3 >= 2 * total

MeetsThresholdStrict(weight, total) == weight * 100 > CONSENSUS_THRESHOLD * total

MeetsThreshold(weight, total) == weight * 100 >= CONSENSUS_THRESHOLD * total

\* len(votes) < VOTES_REQUIRED
BelowQuorumOff(n) == FALSE

BelowQuorum(n) == n < VOTES_REQUIRED

\* The outcome of _check_and_finalize_verification for the rows it selected:
\* new_status ("none" for None), winning_vote and the verification score.
Decide(seen) ==
    LET n  == BagCardinality(seen)
        tw == TotalWeight(seen)
        wc == WeightedFor(seen, "correct")
        wi == WeightedFor(seen, "incorrect")
        no == [new_status |-> "none", winning_vote |-> "none", score |-> NoScore]
    IN  IF BelowQuorum(n) THEN no
        ELSE IF tw = 0 THEN no
        ELSE IF MeetsThreshold(wc, tw)
               THEN [new_status |-> "verified", winning_vote |-> "correct",
                     score |-> Ratio(Max(wc, wi), tw)]
        ELSE IF MeetsThreshold(wi, tw)
               THEN [new_status |-> "rejected", winning_vote |-> "incorrect",
                     score |-> Ratio(Max(wc, wi), tw)]
        ELSE IF n >= VOTES_REQUIRED * 2
               THEN [new_status |-> "disputed", winning_vote |-> "none",
                     score |-> Ratio(Max(wc, wi), tw)]
        ELSE no

\* ------------------------------------------------------------- reputation

\* voter.trust_score = min(100, voter.trust_score + 1)
RaiseTrustUncapped(score) == score + 1

RaiseTrust(score) == Min(TRUST_MAX, score + 1)

\* voter.trust_score = max(0, voter.trust_score - 1)
LowerTrust(score) == Max(TRUST_MIN, score - 1)

\* One pass of the loop body over one vote, on the voter's object.
AdjustVoter(obj, vote, winning) ==
    IF vote = winning
      THEN [obj EXCEPT !.xp = @ + XP_BONUS_CONSENSUS,
                       !.trust_score = RaiseTrust(@)]
    ELSE IF vote # "unclear"
      THEN [obj EXCEPT !.trust_score = LowerTrust(@)]
    ELSE obj

RECURSIVE AdjustTimes(_, _, _, _)
AdjustTimes(obj, vote, winning, k) ==
    IF k = 0 THEN obj
    ELSE AdjustTimes(AdjustVoter(obj, vote, winning), vote, winning, k - 1)

\* for vote in votes: ... over the selected rows, on the session's objects.
RECURSIVE FanOut(_, _, _, _)
FanOut(objs, seen, rows, winning) ==
    IF rows = {} THEN objs
    ELSE LET w == CHOOSE x \in rows : TRUE
         IN  FanOut([objs EXCEPT ![w.verifier_id] =
                        AdjustTimes(@, w.vote, winning, seen[w])],
                    seen, rows \ {w}, winning)

\* if owner and new_status == "verified": on the owner's object
OwnerCreditedAlways(obj, new_status) ==
    [obj EXCEPT !.verified_readings = @ + 1, !.xp = @ + XP_OWNER_BONUS]

OwnerCredited(obj, new_status) ==
    IF new_status = "verified"
      THEN [obj EXCEPT !.verified_readings = @ + 1, !.xp = @ + XP_OWNER_BONUS]
      ELSE obj

\* ---------------------------------------------------------------- sessions

NoObjects == [u \in {} |-> NewUser(0)]

IdleTxn ==
    [ pc |-> "idle", user |-> 0, reading |-> 0,
      resp |-> "", loaded |-> NoObjects, objs |-> NoObjects,
      rd_loaded |-> <<>>, rd |-> <<>>, pending |-> EmptyBag,
      seen |-> EmptyBag, new_status |-> "none", winning_vote |-> "none" ]

\* The identity map after select(User).where(User.id == u): an object the
\* session already holds is kept as it is, another is read from the table.
Load(t, ids) ==
    LET all == DOMAIN txn[t].objs \cup ids
    IN  [ loaded |-> [u \in all |-> IF u \in DOMAIN txn[t].loaded
                                      THEN txn[t].loaded[u] ELSE users[u]],
          objs   |-> [u \in all |-> IF u \in DOMAIN txn[t].objs
                                      THEN txn[t].objs[u] ELSE users[u]] ]

\* The request ends: the session is closed.  What is kept of it is what it
\* was (caller, reading), its response and what its finalize check selected.
Closed(s, code) ==
    [IdleTxn EXCEPT !.pc = "done", !.resp = code, !.user = s.user,
                    !.reading = s.reading, !.seen = s.seen,
                    !.new_status = s.new_status]

Respond(t, code) == Closed(txn[t], code)

\* vote_on_reading up to the finalize check: get_current_user loads the
\* caller, the body is validated, the reading is read, own readings and a
\* second vote are refused, the vote is created and counted on the caller.
\* Nothing is written before the commit.
Begin(t, u, r, in) ==
    /\ txn[t].pc \in {"idle", "done"}
    /\ u \in DOMAIN users
    /\ LET s == [IdleTxn EXCEPT !.user = u, !.reading = r]
       IN  txn' = [txn EXCEPT ![t] =
                IF in[1] \notin {"correct", "incorrect", "unclear"}
                  THEN Closed(s, "400_invalid_vote")
                ELSE IF in[1] = "incorrect" /\ ~in[2]
                  THEN Closed(s, "400_missing_value")
                ELSE IF r \notin DOMAIN readings THEN Closed(s, "404")
                ELSE IF IsOwnReading(readings[r], u) THEN Closed(s, "403")
                ELSE IF BagCardinality(VotesOfPair(votes, r, u)) > 0
                  THEN Closed(s, "400_duplicate")
                ELSE [s EXCEPT
                        !.pc = "finalize",
                        !.rd_loaded = <<readings[r]>>,
                        !.rd = <<readings[r]>>,
                        !.pending = SetToBag({VoteRow(r, u, in[1], in[2],
                                                users[u].trust_score)}),
                        !.loaded = [x \in {u} |-> users[u]],
                        !.objs = [x \in {u} |->
                                   [users[u] EXCEPT
                                      !.verifications_performed = @ + 1,
                                      !.xp = @ + XP_FOR_VERIFICATION]]]]
    /\ UNCHANGED <<users, readings, votes, others>>

\* _check_and_finalize_verification up to the new status: the votes are
\* selected from the table, which does not hold the vote this session added.
Finalize(t) ==
    /\ txn[t].pc = "finalize"
    /\ LET seen == VotesOfReading(votes, txn[t].reading)
           d    == Decide(seen)
       IN  txn' = [txn EXCEPT ![t] =
                IF d.new_status = "none"
                  THEN [@ EXCEPT !.pc = "commit", !.seen = seen]
                ELSE [@ EXCEPT
                        !.pc = "fanout", !.seen = seen,
                        !.new_status = d.new_status,
                        !.winning_vote = d.winning_vote,
                        !.rd = <<[@[1] EXCEPT
                                   !.verification_status = d.new_status,
                                   !.verification_score = d.score]>>]]
    /\ UNCHANGED <<users, readings, votes, others>>

\* The rest of _check_and_finalize_verification: the owner's stats and the
\* loop over the selected votes.
Reputation(t) ==
    /\ txn[t].pc = "fanout"
    /\ LET owner  == txn[t].rd[1].user_id
           voters == {w.verifier_id :
                        w \in {x \in BagToSet(txn[t].seen) :
                                 x.vote = txn[t].winning_vote
                                 \/ x.vote # "unclear"}}
           m      == Load(t, {owner} \cup
                             (IF txn[t].winning_vote = "none" THEN {} ELSE voters))
           o1     == [m.objs EXCEPT
                        ![owner] = OwnerCredited(@, txn[t].new_status)]
           o2     == IF txn[t].winning_vote = "none" THEN o1
                     ELSE FanOut(o1, txn[t].seen, BagToSet(txn[t].seen),
                                 txn[t].winning_vote)
       IN  txn' = [txn EXCEPT ![t] =
                     [@ EXCEPT !.pc = "commit", !.loaded = m.loaded, !.objs = o2]]
    /\ UNCHANGED <<users, readings, votes, others>>

\* The UPDATE of one object: the attributes that differ from their loaded
\* value are written, the others keep what the table holds.
Written(row, was, now) ==
    [ f \in DOMAIN row |-> IF now[f] # was[f] THEN now[f] ELSE row[f] ]

WrittenReading(row, was, now) ==
    [ f \in DOMAIN row |-> IF now[f] # was[f] THEN now[f] ELSE row[f] ]

\* ForeignKey("readings.id"): the INSERT of row fails.
ViolatesVoteFK(row, table) == row.reading_id \notin DOMAIN table

\* The INSERT of the session's vote is refused by the unique constraint or
\* by the foreign key.
CommitFails(t) ==
    \E w \in BagToSet(txn[t].pending) :
        IF ViolatesVoteFK(w, readings) THEN TRUE
        ELSE ViolatesUniqueVote(w, votes)

\* db.commit(): the flush writes the vote and the changed attributes, or the
\* unique constraint refuses the vote and the whole session is rolled back.
Commit(t) ==
    /\ txn[t].pc = "commit"
    /\ IF CommitFails(t)
         THEN /\ txn' = [txn EXCEPT ![t] = Respond(t, "500_integrity")]
              /\ UNCHANGED <<users, readings, votes, others>>
         ELSE /\ votes' = votes (+) txn[t].pending
              /\ users' = [u \in DOMAIN users |->
                             IF u \in DOMAIN txn[t].objs
                               THEN Written(users[u], txn[t].loaded[u],
                                            txn[t].objs[u])
                               ELSE users[u]]
              /\ readings' = [readings EXCEPT ![txn[t].reading] =
                               WrittenReading(@, txn[t].rd_loaded[1],
                                              txn[t].rd[1])]
              /\ txn' = [txn EXCEPT ![t] = Respond(t, "200")]
              /\ UNCHANGED others

\* ---------------------------------------------------------------- referrals

\* referrer.xp += 50  # Bonus XP for referral
XP_FOR_REFERRAL == 50

\* The characters of the codes the model sends.
InputChars == {"A", "a", "B", "b", "C", "c", "2"}

CodeInputs == {<<c1, c2>> : c1 \in InputChars, c2 \in InputChars}

\* str.upper(), character by character
UpperChar(c) ==
    IF c = "a" THEN "A" ELSE IF c = "b" THEN "B" ELSE IF c = "c" THEN "C" ELSE c

Upper(code) == [i \in 1..Len(code) |-> UpperChar(code[i])]

\* current_user.referral_code == code
IsOwnCode(u, code) == referrals[u].referral_code = code

\* select(User).where(User.referral_code == code.upper())
Referrers(code) ==
    {x \in DOMAIN referrals : referrals[x].referral_code = Upper(code)}

\* apply_referral, one request at a time.  The caller and the referrer are
\* objects of one session: when they are the same user, they are one object.
ApplyReferral(u, code) ==
    /\ \A t \in DOMAIN txn : txn[t].pc \in {"idle", "done"}
    /\ IF IsOwnCode(u, code) THEN UNCHANGED vars
       ELSE IF referrals[u].referred_by_id # Null THEN UNCHANGED vars
       ELSE IF Referrers(code) = {} THEN UNCHANGED vars
       ELSE LET referrer == CHOOSE x \in Referrers(code) : TRUE
            IN  /\ referrals' =
                     [x \in DOMAIN referrals |->
                        [ referral_code  |-> referrals[x].referral_code,
                          referred_by_id |->
                             IF x = u THEN Some(referrer)
                             ELSE referrals[x].referred_by_id,
                          referral_count |->
                             IF x = referrer THEN referrals[x].referral_count + 1
                             ELSE referrals[x].referral_count ]]
                /\ users' = [users EXCEPT ![referrer].xp = @ + XP_FOR_REFERRAL]
                /\ UNCHANGED <<readings, votes, txn, meters, devices, clock>>

\* ----------------------------------------------------------------- deletion

\* cascade="all, delete-orphan": the votes db.delete(reading) loaded are
\* deleted with it.
DeleteCascadeOff(table, loaded) == table

DeleteCascade(table, loaded) == table (-) loaded

\* delete_reading up to the commit: the reading is selected by id and owner,
\* and db.delete loads its votes to cascade to them.
DeleteBegin(t, u, r) ==
    /\ txn[t].pc \in {"idle", "done"}
    /\ u \in DOMAIN users
    /\ LET s == [IdleTxn EXCEPT !.user = u, !.reading = r]
       IN  txn' = [txn EXCEPT ![t] =
                IF r \notin DOMAIN readings THEN Closed(s, "404")
                ELSE IF readings[r].user_id # u THEN Closed(s, "404")
                ELSE [s EXCEPT !.pc = "delete",
                               !.seen = VotesOfReading(votes, r)]]
    /\ UNCHANGED <<users, readings, votes, others>>

\* db.commit() of delete_reading: the loaded votes and the reading are
\* deleted.  The DELETE of a reading that is gone finds no row, and the
\* foreign key of a vote that is left refuses the DELETE of its reading; the
\* session is rolled back then.
DeleteCommit(t) ==
    /\ txn[t].pc = "delete"
    /\ LET r    == txn[t].reading
           left == DeleteCascade(votes, txn[t].seen)
       IN  IF r \notin DOMAIN readings
             THEN /\ txn' = [txn EXCEPT ![t] = Respond(t, "500_stale")]
                  /\ UNCHANGED <<users, readings, votes, others>>
           ELSE IF VotesOfReading(left, r) # EmptyBag
             THEN /\ txn' = [txn EXCEPT ![t] = Respond(t, "500_integrity")]
                  /\ UNCHANGED <<users, readings, votes, others>>
           ELSE /\ votes' = left
                /\ readings' = [q \in DOMAIN readings \ {r} |-> readings[q]]
                /\ txn' = [txn EXCEPT ![t] = Respond(t, "204")]
                /\ UNCHANGED <<users, others>>

\* -------------------------------------------------------------------- queue

\* The meter_type and limit parameters the model sends.
QueueTypes == {Null, Some("electric"), Some("gas")}

QueueLimits == {1, 2}

\* The where clause of total_query for verifier x.
CountedInTotal(x, r, type) ==
    /\ readings[r].user_id # x
    /\ BagCardinality(VotesOfPair(votes, r, x)) = 0
    /\ readings[r].verification_status = "pending"

\* The main query without its vote-count condition.
EligibleAnyCount(x, r, type) ==
    /\ readings[r].meter_id \in DOMAIN meters
    /\ readings[r].user_id # x
    /\ BagCardinality(VotesOfPair(votes, r, x)) = 0
    /\ readings[r].verification_status = "pending"
    /\ (type # Null => meters[readings[r].meter_id].meter_type = type[1])

\* The main query for verifier x: the join with the meter, the where clause
\* (the outer join leaves vote_count NULL for a reading without votes) and
\* the meter_type filter.
Eligible(x, r, type) ==
    /\ readings[r].meter_id \in DOMAIN meters
    /\ readings[r].user_id # x
    /\ BagCardinality(VotesOfPair(votes, r, x)) = 0
    /\ readings[r].verification_status = "pending"
    /\ BagCardinality(VotesOfReading(votes, r)) < VOTES_REQUIRED
    /\ (type # Null => meters[readings[r].meter_id].meter_type = type[1])

\* vote_count of the outer join: NULL for a reading without votes.
VoteCount(r) ==
    LET n == BagCardinality(VotesOfReading(votes, r))
    IN  IF n = 0 THEN Null ELSE Some(n)

\* The order without nulls_last(): PostgreSQL sorts NULL first in a
\* descending order.
QueueBeforeNullsFirst(r, q) ==
    IF VoteCount(r) = VoteCount(q)
      THEN readings[r].confidence > readings[q].confidence
    ELSE IF VoteCount(r) = Null THEN TRUE
    ELSE IF VoteCount(q) = Null THEN FALSE
    ELSE VoteCount(r)[1] > VoteCount(q)[1]

\* order_by(vote_count.desc().nulls_last(), Reading.confidence.desc()): row r
\* sorts before row q.
QueueBefore(r, q) ==
    IF VoteCount(r) = VoteCount(q)
      THEN readings[r].confidence > readings[q].confidence
    ELSE IF VoteCount(r) = Null THEN FALSE
    ELSE IF VoteCount(q) = Null THEN TRUE
    ELSE VoteCount(r)[1] > VoteCount(q)[1]

\* The results get_verification_queue can return to verifier x: the first
\* limit rows of the main query in its order; rows that agree in vote count
\* and confidence come in any order.
QueueOrders(x, type, limit) ==
    LET rows == {r \in DOMAIN readings : Eligible(x, r, type)}
        n    == Min(limit, Cardinality(rows))
    IN  {page \in [1..n -> rows] :
           /\ \A i, j \in 1..n : i < j =>
                /\ page[i] # page[j]
                /\ ~QueueBefore(page[j], page[i])
           /\ \A q \in rows \ {page[i] : i \in 1..n} :
                \A i \in 1..n : ~QueueBefore(q, page[i])}

\* The readings of the results, as sets.
QueuePages(x, type, limit) ==
    {{page[i] : i \in 1..Len(page)} : page \in QueueOrders(x, type, limit)}

\* total_available
TotalAvailable(x) ==
    Cardinality({r \in DOMAIN readings : CountedInTotal(x, r, Null)})

\* ------------------------------------------------------- status and history

\* vote_counts.get(side, 0) of get_verification_status
StatusCount(r, side) ==
    BagCardinality([w \in {x \in BagToSet(votes) :
                             x.reading_id = r /\ x.vote = side} |-> votes[w]])

\* consensus_reached of get_verification_status: the share of the larger
\* side in the number of votes, each vote counting once.
ConsensusReached(r) ==
    LET votes_correct   == StatusCount(r, "correct")
        votes_incorrect == StatusCount(r, "incorrect")
        votes_unclear   == StatusCount(r, "unclear")
        total_votes     == votes_correct + votes_incorrect + votes_unclear
    IN  IF total_votes >= VOTES_REQUIRED
          THEN MeetsThreshold(Max(votes_correct, votes_incorrect), total_votes)
          ELSE FALSE

\* total_verifications of get_verification_history
TotalVerifications(u) ==
    BagCardinality([w \in {x \in BagToSet(votes) : x.verifier_id = u}
                      |-> votes[w]])

\* consensus_matches of get_verification_history: the votes of u, joined
\* with their readings, that agree with a verified or rejected status.
ConsensusMatches(u) ==
    BagCardinality(
      [w \in {x \in BagToSet(votes) :
                /\ x.verifier_id = u
                /\ x.reading_id \in DOMAIN readings
                /\ IF x.vote = "correct"
                     THEN readings[x.reading_id].verification_status = "verified"
                   ELSE IF x.vote = "incorrect"
                     THEN readings[x.reading_id].verification_status = "rejected"
                   ELSE FALSE}
         |-> votes[w]])

\* xp_earned of get_verification_history
XpEarned(u) ==
    TotalVerifications(u) * XP_FOR_VERIFICATION
      + ConsensusMatches(u) * XP_BONUS_CONSENSUS

\* ----------------------------------------------------------------- readings

\* current_user.xp += 10  # XP for reading
XP_FOR_READING == 10

\* samples[-50:]
SAMPLES_KEPT == 50

FLAG_REASON_DECREASED == "Reading decreased from previous"

\* ReadingCreate bodies the model sends: normalized_value, numeric_value and
\* confidence; capture_method is left at its default, "live".
ReadingBodies ==
    { [normalized_value |-> "", numeric_value |-> Null, confidence |-> 90],
      [normalized_value |-> "0", numeric_value |-> Some(0), confidence |-> 90],
      [normalized_value |-> "100", numeric_value |-> Some(100),
       confidence |-> 90],
      [normalized_value |-> "150", numeric_value |-> Some(150),
       confidence |-> 90] }

\* Python's truth value of an Optional[float]: None and 0.0 are false.
Truthy(value) == value # Null /\ value[1] # 0

\* select(Reading).where(meter_id == m).order_by(captured_at.desc()).limit(1)
PrevReadings(table, m) ==
    {r \in DOMAIN table :
        /\ table[r].meter_id = m
        /\ \A q \in DOMAIN table :
             table[q].meter_id = m => table[q].captured_at <= table[r].captured_at}

\* if prev_reading and reading.numeric_value and prev_reading.numeric_value
\* (prev is <<>> if the meter has no reading)
ComputesUsage(value, prev) ==
    IF prev = <<>> THEN FALSE
    ELSE Truthy(value) /\ Truthy(prev[1].numeric_value)

\* The usage, the days and the flag create_reading computes against prev at
\* the time now, one tick of the clock being a day:
\* <<usage_since_last, days_since_last, flagged, flag_reason>>.
Usage(value, prev, now) ==
    IF ComputesUsage(value, prev)
      THEN LET usage_since_last == value[1] - prev[1].numeric_value[1]
               days_since_last  == now - prev[1].captured_at
           IN  IF usage_since_last < 0
                 THEN <<Some(usage_since_last), Some(days_since_last), TRUE,
                        Some(FLAG_REASON_DECREASED)>>
                 ELSE <<Some(usage_since_last), Some(days_since_last), FALSE,
                        Null>>
      ELSE <<Null, Null, FALSE, Null>>

\* samples.append(normalized_value); samples = samples[-50:]
Sampled(samples, normalized_value) ==
    LET all == Append(samples, normalized_value)
    IN  IF Len(all) > SAMPLES_KEPT
          THEN SubSeq(all, Len(all) - SAMPLES_KEPT + 1, Len(all))
          ELSE all

\* What the commit stores of meter.sample_readings = samples.  The column is
\* a plain JSONB (no mutable extension): "meter.sample_readings or []" is
\* the loaded list itself unless that is empty, append changes it in place,
\* and the attribute is then set to the object it already holds, in which
\* the flush finds no change.  A new list (from [] or from the slice) is
\* written.
StoredSamples(samples, normalized_value) ==
    IF samples = <<>> THEN Sampled(samples, normalized_value)
    ELSE IF Len(samples) + 1 > SAMPLES_KEPT
      THEN Sampled(samples, normalized_value)
    ELSE samples

\* create_reading, one request at a time: the meter must be the caller's;
\* the reading is stored with its usage and flag, the caller and the meter
\* are updated.  The new reading is captured now, at clock + 1.  aware says
\* whether the database returns captured_at (DateTime(timezone=True)) with
\* its time zone, as PostgreSQL does, or naive, as the SQLite of the tests:
\* datetime.utcnow() minus an aware datetime raises TypeError and the
\* request ends 500 with nothing stored.
CreateReading(u, m, body, aware) ==
    /\ \A t \in DOMAIN txn : txn[t].pc \in {"idle", "done"}
    /\ IF m \notin DOMAIN meters THEN UNCHANGED vars
       ELSE IF meters[m].user_id # u THEN UNCHANGED vars
       ELSE LET now  == clock + 1
                prev == IF PrevReadings(readings, m) = {} THEN <<>>
                        ELSE <<readings[CHOOSE r \in PrevReadings(readings, m) : TRUE]>>
                calc == Usage(body.numeric_value, prev, now)
            IN  IF aware /\ ComputesUsage(body.numeric_value, prev)
                  THEN UNCHANGED vars
                ELSE
                /\ readings' =
                     [r \in DOMAIN readings \cup {now} |->
                        IF r = now
                          THEN ReadingRow(u, m, "live",
                                          body.normalized_value,
                                          body.numeric_value,
                                          body.confidence, now,
                                          calc[1], calc[2], calc[3], calc[4])
                          ELSE readings[r]]
                /\ users' = [users EXCEPT ![u].total_readings = @ + 1,
                                          ![u].xp = @ + XP_FOR_READING]
                /\ meters' = [meters EXCEPT
                      ![m].last_read_at = Some(now),
                      ![m].sample_readings =
                         IF body.normalized_value # ""
                           THEN StoredSamples(@, body.normalized_value) ELSE @]
                /\ clock' = now
                /\ UNCHANGED <<votes, txn, devices, referrals>>

\* create_hardware_reading: the device must be known; the reading is stored
\* for the device's user with no usage and no flag, the device is updated.
\* The foreign key of meter_id refuses a meter that does not exist.
CreateHardwareReading(d, m, body) ==
    /\ \A t \in DOMAIN txn : txn[t].pc \in {"idle", "done"}
    /\ IF d \notin DOMAIN devices THEN UNCHANGED vars
       ELSE IF m \notin DOMAIN meters THEN UNCHANGED vars
       ELSE LET now == clock + 1
            IN  /\ readings' =
                     [r \in DOMAIN readings \cup {now} |->
                        IF r = now
                          THEN ReadingRow(devices[d].user_id, m, "hardware",
                                          body.normalized_value,
                                          body.numeric_value, body.confidence,
                                          now, Null, Null, FALSE, Null)
                          ELSE readings[r]]
                /\ devices' = [devices EXCEPT ![d].is_online = TRUE,
                                              ![d].last_reading_at = Some(now)]
                /\ clock' = now
                /\ UNCHANGED <<users, votes, txn, meters, referrals>>

\* combined[-10:]
CALIBRATION_KEPT == 10

\* MeterCalibration bodies the model sends: sample_readings absent, empty,
\* one sample, and eleven samples.
CalibrationBodies ==
    { Null, Some(<<>>), Some(<<"7">>),
      Some(<<"1", "2", "3", "4", "5", "6", "7", "8", "9", "10", "11">>) }

\* (existing + calibration.sample_readings)[-10:]
Calibrated(existing, given) ==
    LET combined == existing \o given
    IN  IF Len(combined) > CALIBRATION_KEPT
          THEN SubSeq(combined, Len(combined) - CALIBRATION_KEPT + 1,
                      Len(combined))
          ELSE combined

\* calibrate_meter, one request at a time: the meter must be the caller's;
\* the samples of the body are appended to the meter's.  The request is
\* served at clock + 1.
CalibrateMeter(u, m, given) ==
    /\ \A t \in DOMAIN txn : txn[t].pc \in {"idle", "done"}
    /\ IF m \notin DOMAIN meters THEN UNCHANGED vars
       ELSE IF meters[m].user_id # u THEN UNCHANGED vars
       ELSE /\ meters' = [meters EXCEPT
                  ![m].sample_readings =
                     IF given # Null THEN Calibrated(@, given[1]) ELSE @]
            /\ clock' = clock + 1
            /\ UNCHANGED <<users, readings, votes, txn, devices, referrals>>

\* ----------------------------------------------------------- specifications

\* Meter 1 of user 1, no MeterPi device, every user with its referral code
\* and no referral applied; the clock stands at the one reading's capture.
Registered ==
    /\ meters = [m \in {1} |-> NewMeter(1, "electric")]
    /\ devices = [d \in {} |-> 0]
    /\ clock = 1
    /\ referrals = [u \in DOMAIN users |-> NewReferral(CodeOf(u))]

\* User 1 owns reading 1; reading 0 does not exist.
ReadingInputs == {0, 1}

\* Concurrent sessions, from a state the serial requests reach: verifier 2
\* (trust 100) and verifier 4 have voted correct and verifier 3 (trust 0)
\* incorrect on reading 1, which is pending since no finalize check has
\* selected three votes yet; the verifiers from 5 on have the default trust
\* and have not voted.
Init ==
    /\ users = [u \in 1..(4 + NumFreeVerifiers) |->
                  IF u \in {2, 3, 4}
                    THEN [NewUser(IF u = 2 THEN TRUST_MAX
                                  ELSE IF u = 3 THEN TRUST_MIN
                                  ELSE DEFAULT_TRUST)
                            EXCEPT !.xp = XP_FOR_VERIFICATION,
                                   !.verifications_performed = 1]
                  ELSE NewUser(DEFAULT_TRUST)]
    /\ readings = [r \in {1} |-> NewReading(1)]
    /\ votes = SetToBag({ VoteRow(1, 2, "correct", FALSE, TRUST_MAX),
                          VoteRow(1, 3, "incorrect", TRUE, TRUST_MIN),
                          VoteRow(1, 4, "correct", FALSE, DEFAULT_TRUST) })
    /\ txn = [t \in 1..NumTxns |-> IdleTxn]
    /\ Registered

\* A request that is refused whoever sends it (a malformed body, a reading
\* that does not exist) is sent by user 1.
Request(u, r, in) ==
    (\/ r \notin DOMAIN readings
     \/ in[1] \notin {"correct", "incorrect", "unclear"}
     \/ (in[1] = "incorrect" /\ ~in[2])) => u = 1

Next ==
    \/ \E t \in DOMAIN txn, u \in DOMAIN users, r \in ReadingInputs,
          in \in VoteInputs : Request(u, r, in) /\ Begin(t, u, r, in)
    \/ \E t \in DOMAIN txn : Finalize(t)
    \/ \E t \in DOMAIN txn : Reputation(t)
    \/ \E t \in DOMAIN txn : Commit(t)

Spec == Init /\ [][Next]_vars

\* One request at a time, on a fresh system: every user has the default
\* trust and nobody has voted.
SerialInit ==
    /\ users = [u \in 1..(1 + NumSerialVerifiers) |-> NewUser(DEFAULT_TRUST)]
    /\ readings = [r \in {1} |-> NewReading(1)]
    /\ votes = EmptyBag
    /\ txn = [t \in {1} |-> IdleTxn]
    /\ Registered

HasVoted(u, r) == BagCardinality(VotesOfPair(votes, r, u)) > 0

\* The verifiers of the serial specification are alike, so the requests of
\* those that have not voted yet are taken in the order of their ids.
SerialRequest(u, r, in) ==
    /\ Request(u, r, in)
    /\ IF r \notin DOMAIN readings THEN TRUE
       ELSE IF readings[r].user_id = u \/ HasVoted(u, r) THEN TRUE
       ELSE \A x \in DOMAIN users :
              (x < u /\ readings[r].user_id # x) => HasVoted(x, r)

SerialNext ==
    \/ \E t \in DOMAIN txn, u \in DOMAIN users, r \in ReadingInputs,
          in \in VoteInputs : SerialRequest(u, r, in) /\ Begin(t, u, r, in)
    \/ \E t \in DOMAIN txn : Finalize(t)
    \/ \E t \in DOMAIN txn : Reputation(t)
    \/ \E t \in DOMAIN txn : Commit(t)

SerialSpec == SerialInit /\ [][SerialNext]_vars

\* castVote and delete_reading sessions side by side.
DeleteNext ==
    \/ \E t \in DOMAIN txn, u \in DOMAIN users, r \in ReadingInputs,
          in \in VoteInputs : Request(u, r, in) /\ Begin(t, u, r, in)
    \/ \E t \in DOMAIN txn : Finalize(t)
    \/ \E t \in DOMAIN txn : Reputation(t)
    \/ \E t \in DOMAIN txn : Commit(t)
    \/ \E t \in DOMAIN txn, u \in {1, 2}, r \in ReadingInputs :
          (r \notin DOMAIN readings => u = 1) /\ DeleteBegin(t, u, r)
    \/ \E t \in DOMAIN txn : DeleteCommit(t)

DeleteSpec == Init /\ [][DeleteNext]_vars

\* Submissions, one request at a time: users 1 and 2 own meters 1 and 2,
\* user 1 has a MeterPi (device 1), nothing has been read yet.
LedgerInit ==
    /\ users = [u \in {1, 2} |-> NewUser(DEFAULT_TRUST)]
    /\ readings = [r \in {} |-> NewReading(1)]
    /\ votes = EmptyBag
    /\ txn = [t \in {1} |-> IdleTxn]
    /\ meters = [m \in {1, 2} |-> NewMeter(m, "electric")]
    /\ devices = [d \in {1} |-> NewDevice(1)]
    /\ clock = 0
    /\ referrals = [u \in DOMAIN users |-> NewReferral(CodeOf(u))]

\* Meter 3 and device 2 do not exist.
MeterInputs == {1, 2, 3}

DeviceInputs == {1, 2}

LedgerNext ==
    \/ \E u \in DOMAIN users, m \in MeterInputs, body \in ReadingBodies,
          aware \in BOOLEAN :
          clock < MaxReadings /\ CreateReading(u, m, body, aware)
    \/ \E u \in DOMAIN users, m \in MeterInputs, given \in CalibrationBodies :
          clock < MaxReadings /\ CalibrateMeter(u, m, given)
    \/ \E d \in DeviceInputs, m \in MeterInputs, body \in ReadingBodies :
          clock < MaxReadings /\ CreateHardwareReading(d, m, body)

LedgerSpec == LedgerInit /\ [][LedgerNext]_vars

\* The vote values and the trust scores of the votes a reading starts with
\* in the decision specification: 34 + 33 of 100 is the threshold exactly.
VoteValues == <<"correct", "incorrect", "unclear">>

TrustInputs == <<0, 33, 34>>

NumKinds == Len(VoteValues) * Len(TrustInputs)

\* The sequences of n kinds of vote, each kind a number in lo..NumKinds, in
\* ascending order: one sequence for every multiset of n votes.
RECURSIVE KindSeqs(_, _)
KindSeqs(n, lo) ==
    IF n = 0 THEN {<<>>}
    ELSE UNION {{<<k>> \o q : q \in KindSeqs(n - 1, k)} : k \in lo..NumKinds}

KindVote(k) == VoteValues[((k - 1) \div Len(TrustInputs)) + 1]

KindTrust(k) == TrustInputs[((k - 1) % Len(TrustInputs)) + 1]

\* The finalize check on any votes: reading 1 of user 1 is pending and holds
\* the votes of users 2, 3, ... (any multiset of 3 to MaxVotes votes; votes
\* that were committed by sessions that ran side by side each passed the
\* finalize check before the others were committed), every voter with the
\* trust score the vote was cast at.  The last user has not voted.
DecideInit ==
    \E n \in VOTES_REQUIRED..MaxVotes : \E kinds \in KindSeqs(n, 1) :
      /\ users = [u \in 1..(MaxVotes + 2) |->
                    IF u \in 2..(n + 1)
                      THEN [NewUser(KindTrust(kinds[u - 1]))
                              EXCEPT !.xp = XP_FOR_VERIFICATION,
                                     !.verifications_performed = 1]
                    ELSE NewUser(DEFAULT_TRUST)]
      /\ readings = [r \in {1} |-> NewReading(1)]
      /\ votes = SetToBag({ VoteRow(1, i + 1, KindVote(kinds[i]),
                                    KindVote(kinds[i]) = "incorrect",
                                    KindTrust(kinds[i])) : i \in 1..n })
      /\ txn = [t \in {1} |-> IdleTxn]
      /\ Registered

\* The user who has not voted casts the next vote.
DecideNext ==
    \/ \E t \in DOMAIN txn :
          Begin(t, MaxVotes + 2, 1, <<"unclear", FALSE>>)
    \/ \E t \in DOMAIN txn : Finalize(t)
    \/ \E t \in DOMAIN txn : Reputation(t)
    \/ \E t \in DOMAIN txn : Commit(t)

DecideSpec == DecideInit /\ [][DecideNext]_vars

\* Referrals on a fresh system: every user is registered with a code of
\* its own and nobody has applied one.
ReferralInit ==
    /\ users = [u \in 1..NumReferralUsers |-> NewUser(DEFAULT_TRUST)]
    /\ readings = [r \in {1} |-> NewReading(1)]
    /\ votes = EmptyBag
    /\ txn = [t \in {1} |-> IdleTxn]
    /\ Registered

ReferralNext ==
    \E u \in DOMAIN users, code \in CodeInputs : ApplyReferral(u, code)

ReferralSpec == ReferralInit /\ [][ReferralNext]_vars

\* Two readings of meter 1 side by side: reading 1 (confidence 0.90) holds
\* the votes of verifier 2 (trust 100, correct) and verifier 3 (trust 0,
\* incorrect); reading 2 (confidence 0.95) was submitted the next day without
\* a numeric value and has no vote.  User 4 and the verifiers from 5 on have
\* not voted.
PoolReadings == {1, 2}

PoolInit ==
    /\ users = [u \in 1..(4 + NumFreeVerifiers) |->
                  IF u \in {2, 3}
                    THEN [NewUser(IF u = 2 THEN TRUST_MAX ELSE TRUST_MIN)
                            EXCEPT !.xp = XP_FOR_VERIFICATION,
                                   !.verifications_performed = 1]
                  ELSE IF u = 1
                    THEN [NewUser(DEFAULT_TRUST)
                            EXCEPT !.xp = 2 * XP_FOR_READING,
                                   !.total_readings = 2]
                  ELSE NewUser(DEFAULT_TRUST)]
    /\ readings = [r \in PoolReadings |->
                     IF r = 1 THEN NewReading(1)
                     ELSE ReadingRow(1, 1, "live", "150", Null, 95, 2, Null,
                                     Null, FALSE, Null)]
    /\ votes = SetToBag({ VoteRow(1, 2, "correct", FALSE, TRUST_MAX),
                          VoteRow(1, 3, "incorrect", TRUE, TRUST_MIN) })
    /\ txn = [t \in 1..NumTxns |-> IdleTxn]
    /\ meters = [m \in {1} |->
                   [NewMeter(1, "electric") EXCEPT
                      !.sample_readings = <<"100">>,
                      !.last_read_at = Some(2)]]
    /\ devices = [d \in {} |-> 0]
    /\ clock = 2
    /\ referrals = [u \in DOMAIN users |-> NewReferral(CodeOf(u))]

\* The verifiers from 5 on vote 'correct' on either reading, in sessions
\* side by side.
PoolNext ==
    \/ \E t \in DOMAIN txn, u \in 5..(4 + NumFreeVerifiers),
          r \in PoolReadings : Begin(t, u, r, <<"correct", FALSE>>)
    \/ \E t \in DOMAIN txn : Finalize(t)
    \/ \E t \in DOMAIN txn : Reputation(t)
    \/ \E t \in DOMAIN txn : Commit(t)

PoolSpec == PoolInit /\ [][PoolNext]_vars

\* Verifiers who vote on what their queue serves: reading 1 of user 1 is
\* pending and has no vote, every user has the default trust.
QueueInit ==
    /\ users = [u \in 1..(1 + NumQueueVerifiers) |-> NewUser(DEFAULT_TRUST)]
    /\ readings = [r \in {1} |-> NewReading(1)]
    /\ votes = EmptyBag
    /\ txn = [t \in 1..NumTxns |-> IdleTxn]
    /\ Registered

\* The votes a verifier casts on a reading of the queue.
QueueVotes == { <<"correct", FALSE>>, <<"incorrect", TRUE>> }

\* Verifier u calls get_verification_queue and casts a vote on a reading of
\* the result.
QueueVote(t, u) ==
    \E limit \in QueueLimits : \E page \in QueueOrders(u, Null, limit) :
      \E i \in 1..Len(page) : \E in \in QueueVotes : Begin(t, u, page[i], in)

QueueNext ==
    \/ \E t \in DOMAIN txn, u \in DOMAIN users : QueueVote(t, u)
    \/ \E t \in DOMAIN txn : Finalize(t)
    \/ \E t \in DOMAIN txn : Reputation(t)
    \/ \E t \in DOMAIN txn : Commit(t)

QueueSpec == QueueInit /\ [][QueueNext]_vars

\* Every request that has begun is served to its end, and a verifier whose
\* queue serves a reading votes on one.
QueueFairness ==
    /\ WF_vars(\E t \in DOMAIN txn, u \in DOMAIN users : QueueVote(t, u))
    /\ \A t \in 1..NumTxns :
         WF_vars(Finalize(t)) /\ WF_vars(Reputation(t)) /\ WF_vars(Commit(t))

FairQueueSpec == QueueSpec /\ QueueFairness

\* ------------------------------------------------------------------- claims

Closed200(t) == txn[t].pc = "done" /\ txn[t].resp = "200"

\* The number of rows of reading r that carry the vote side.
CountSide(table, r, side) ==
    BagCardinality([w \in {x \in BagToSet(VotesOfReading(table, r)) :
                             x.vote = side} |-> table[w]])

AllCastAt(table, r, trust) ==
    \A w \in BagToSet(VotesOfReading(table, r)) : w.verifier_trust_score = trust

\* C1: when a castVote has returned 200 and its reading then holds exactly
\* three votes, all 'correct', the reading is 'verified' and its owner's
\* verified-readings counter has been raised: the finalize check counted the
\* vote just cast.
C1_FinalizeCountsCastVote ==
    \A t \in DOMAIN txn :
        ( /\ Closed200(t)
          /\ BagCardinality(VotesOfReading(votes, txn[t].reading)) = 3
          /\ CountSide(votes, txn[t].reading, "correct") = 3 )
        => /\ readings[txn[t].reading].verification_status = "verified"
           /\ users[readings[txn[t].reading].user_id].verified_readings >= 1

\* C2: a status that is verified, rejected or disputed never changes again.
C2_TerminalStatus ==
    [][ \A r \in DOMAIN readings :
          readings[r].verification_status \in Terminal
          => readings'[r].verification_status = readings[r].verification_status
      ]_vars

\* C3: a castVote that commits on a reading whose status is already terminal
\* changes neither the reading, nor any trust score, nor any verified-readings
\* counter, and adds no XP but the caller's 5 points for voting.
C3_IdempotentRefinalize ==
    [][ \A t \in DOMAIN txn :
          ( /\ txn[t].pc = "commit"
            /\ txn'[t].pc = "done"
            /\ readings[txn[t].reading].verification_status \in Terminal )
          => /\ readings' = readings
             /\ \A u \in DOMAIN users :
                  /\ users'[u].trust_score = users[u].trust_score
                  /\ users'[u].verified_readings = users[u].verified_readings
                  /\ users'[u].xp = users[u].xp +
                       (IF u = txn[t].user /\ txn'[t].resp = "200"
                          THEN XP_FOR_VERIFICATION ELSE 0)
      ]_vars

\* Two sessions on one reading ran concurrently: each committed a vote that
\* the other's finalize check did not select.
Concurrent(t1, t2) ==
    /\ t1 # t2
    /\ Closed200(t1) /\ Closed200(t2)
    /\ txn[t1].reading = txn[t2].reading
    /\ \A w \in BagToSet(txn[t1].seen) : w.verifier_id # txn[t2].user
    /\ \A w \in BagToSet(txn[t2].seen) : w.verifier_id # txn[t1].user

\* C4: of two castVote requests that ran concurrently on one reading, at most
\* one has finalized it.
C4_OneFinalizer ==
    \A t1, t2 \in DOMAIN txn :
        Concurrent(t1, t2)
        => ~(txn[t1].new_status # "none" /\ txn[t2].new_status # "none")

\* The finalize check selected two 'correct' and one 'incorrect' vote, each
\* cast at trust 50.
TwoOfThree(seen) ==
    /\ BagCardinality(seen) = 3
    /\ BagCardinality([w \in {x \in BagToSet(seen) : x.vote = "correct"}
                        |-> seen[w]]) = 2
    /\ BagCardinality([w \in {x \in BagToSet(seen) : x.vote = "incorrect"}
                        |-> seen[w]]) = 1
    /\ \A w \in BagToSet(seen) : w.verifier_trust_score = DEFAULT_TRUST

\* C5 (as stated): finalize on two 'correct' and one 'incorrect' vote at trust
\* 50 sets the status to 'verified'.
C5_TwoOfThreeVerified ==
    \A t \in DOMAIN txn :
        (Closed200(t) /\ TwoOfThree(txn[t].seen))
        => readings[txn[t].reading].verification_status = "verified"

\* C5 (amended): finalize on two 'correct' and one 'incorrect' vote at trust
\* 50 (100/150 < 0.67) decides nothing and the status stays 'pending'.
C5_TwoOfThreePending ==
    \A t \in DOMAIN txn :
        (txn[t].pc \in {"fanout", "commit", "done"} /\ TwoOfThree(txn[t].seen))
        => /\ txn[t].new_status = "none"
           /\ readings[txn[t].reading].verification_status = "pending"

C5_Witness ==
    \E t \in DOMAIN txn : Closed200(t) /\ TwoOfThree(txn[t].seen)

\* C6: the commit that brings a pending reading to six votes, three
\* 'correct' and three 'incorrect', all cast at trust 50, leaves it
\* 'disputed'.
C6_DisputeFallback ==
    [][ \A t \in DOMAIN txn :
          LET r == txn[t].reading IN
          ( /\ txn[t].pc = "commit"
            /\ txn'[t].pc = "done"
            /\ readings[r].verification_status = "pending"
            /\ BagCardinality(VotesOfReading(votes, r)) = 5
            /\ BagCardinality(VotesOfReading(votes', r)) = 6
            /\ CountSide(votes', r, "correct") = 3
            /\ CountSide(votes', r, "incorrect") = 3
            /\ AllCastAt(votes', r, DEFAULT_TRUST) )
          => readings'[r].verification_status = "disputed"
      ]_vars

\* C7: the commit that turns a pending reading verified (rejected) leaves
\* every voter of the reading who voted with the outcome with +1 trust (at
\* most 100) and +10 XP, every voter who voted against it with -1 trust (at
\* least 0) and no bonus, and every 'unclear' voter with trust and bonus
\* unchanged; the caller has its 5 XP for voting besides.
C7_ReputationFanOut ==
    [][ \A t \in DOMAIN txn :
          LET r == txn[t].reading IN
          ( /\ txn[t].pc = "commit"
            /\ txn'[t].pc = "done"
            /\ readings[r].verification_status = "pending"
            /\ readings'[r].verification_status \in {"verified", "rejected"} )
          => LET win == IF readings'[r].verification_status = "verified"
                          THEN "correct" ELSE "incorrect"
             IN  \A w \in BagToSet(VotesOfReading(votes', r)) :
                   LET u    == w.verifier_id
                       cast == IF u = txn[t].user
                                 THEN XP_FOR_VERIFICATION ELSE 0
                   IN  IF w.vote = win
                         THEN /\ users'[u].trust_score =
                                   Min(TRUST_MAX, users[u].trust_score + 1)
                              /\ users'[u].xp =
                                   users[u].xp + XP_BONUS_CONSENSUS + cast
                       ELSE IF w.vote = "unclear"
                         THEN /\ users'[u].trust_score = users[u].trust_score
                              /\ users'[u].xp = users[u].xp + cast
                       ELSE /\ users'[u].trust_score =
                                   Max(TRUST_MIN, users[u].trust_score - 1)
                            /\ users'[u].xp = users[u].xp + cast
      ]_vars

\* C8: no (reading, verifier) pair has more than one vote, and a request
\* that was refused as a second vote, by the check or by the unique
\* constraint at commit, left the pair with its one vote.
C8_SingleVote ==
    /\ \A r \in DOMAIN readings, u \in DOMAIN users :
         BagCardinality(VotesOfPair(votes, r, u)) <= 1
    /\ \A t \in DOMAIN txn :
         (txn[t].pc = "done" /\ txn[t].resp \in {"400_duplicate", "500_integrity"})
         => BagCardinality(VotesOfPair(votes, txn[t].reading, txn[t].user)) = 1

\* Two requests of one verifier raced: the commit of one was refused by the
\* unique constraint, and a later one by the check.
C8_Witness ==
    \E t1, t2 \in DOMAIN txn :
        /\ txn[t1].pc = "done" /\ txn[t1].resp = "500_integrity"
        /\ txn[t2].pc = "done" /\ txn[t2].resp = "400_duplicate"
        /\ txn[t1].user = txn[t2].user
        /\ BagCardinality(VotesOfPair(votes, txn[t1].reading, txn[t1].user)) = 1

\* C9: no vote is by the owner of its reading, no session holds such a vote
\* to insert, and a well-formed castVote by the owner ends 403.
C9_NoSelfVote ==
    /\ \A w \in BagToSet(votes) :
         w.verifier_id # readings[w.reading_id].user_id
    /\ \A t \in DOMAIN txn :
         /\ \A w \in BagToSet(txn[t].pending) :
              w.verifier_id # readings[w.reading_id].user_id
         /\ ( /\ txn[t].pc = "done"
              /\ txn[t].reading \in DOMAIN readings
              /\ txn[t].user = readings[txn[t].reading].user_id )
            => txn[t].resp \in {"403", "400_invalid_vote", "400_missing_value"}

C9_Witness ==
    \E t \in DOMAIN txn :
        /\ txn[t].pc = "done" /\ txn[t].resp = "403"
        /\ txn[t].user = readings[txn[t].reading].user_id

\* C10: every trust score, in the table and on the objects of every session,
\* is within 0..100.
C10_TrustBounds ==
    /\ \A u \in DOMAIN users :
         users[u].trust_score \in TRUST_MIN..TRUST_MAX
    /\ \A t \in DOMAIN txn : \A u \in DOMAIN txn[t].objs :
         txn[t].objs[u].trust_score \in TRUST_MIN..TRUST_MAX

\* A finalization rewarded a voter who was at 100 and penalised one who was
\* at 0, and has been committed.
C10_Witness ==
    \E t \in DOMAIN txn : \E a, b \in DOMAIN users :
        /\ Closed200(t) /\ txn[t].new_status = "verified"
        /\ \E w \in BagToSet(txn[t].seen) :
             w.verifier_id = a /\ w.vote = "correct"
        /\ \E w \in BagToSet(txn[t].seen) :
             w.verifier_id = b /\ w.vote = "incorrect"
        /\ users[a].trust_score = TRUST_MAX
        /\ users[a].xp >= XP_FOR_VERIFICATION + XP_BONUS_CONSENSUS
        /\ users[b].trust_score = TRUST_MIN

\* C11: a session whose finalize check selected fewer than 3 votes decides
\* nothing, and a step that leaves a reading with fewer than 3 votes leaves
\* its status 'pending' and changes no trust score, no verified-readings
\* counter and no XP but the caller's 5 points for the vote.
C11_QuorumGate ==
    [][ /\ \A t \in DOMAIN txn :
              ( /\ txn'[t].pc \in {"fanout", "commit", "done"}
                /\ BagCardinality(txn'[t].seen) < VOTES_REQUIRED )
              => txn'[t].new_status = "none"
        /\ \A r \in DOMAIN readings :
              BagCardinality(VotesOfReading(votes', r)) < VOTES_REQUIRED
              => /\ readings'[r].verification_status = "pending"
                 /\ readings'[r].verification_score = NoScore
                 /\ \A u \in DOMAIN users :
                      /\ users'[u].trust_score = users[u].trust_score
                      /\ users'[u].verified_readings = users[u].verified_readings
                      /\ users'[u].xp \in
                           {users[u].xp, users[u].xp + XP_FOR_VERIFICATION}
      ]_vars

\* A vote was committed after a finalize check that selected two 'correct'
\* votes, and the reading is pending.
C11_Witness ==
    \E t \in DOMAIN txn :
        /\ Closed200(t)
        /\ BagCardinality(txn[t].seen) = 2
        /\ \A w \in BagToSet(txn[t].seen) : w.vote = "correct"
        /\ readings[txn[t].reading].verification_status = "pending"

\* C12: every reading that is stored with a numeric value lower than the
\* numeric value of its meter's most recent prior reading has
\* usage_since_last = new - prior and is flagged with the 'decreased' reason.
C12_PlausibilityFlag ==
    [][ \A r \in DOMAIN readings' \ DOMAIN readings :
          \A p \in PrevReadings(readings, readings'[r].meter_id) :
            ( /\ readings'[r].numeric_value # Null
              /\ readings[p].numeric_value # Null
              /\ readings'[r].numeric_value[1] < readings[p].numeric_value[1] )
            => /\ readings'[r].usage_since_last =
                    Some(readings'[r].numeric_value[1]
                           - readings[p].numeric_value[1])
               /\ readings'[r].flagged_for_review
               /\ readings'[r].flag_reason = Some(FLAG_REASON_DECREASED)
      ]_vars

\* The responses of a castVote that the handler's checks refused.
Rejections ==
    {"404", "403", "400_duplicate", "400_invalid_vote", "400_missing_value"}

\* C13: a castVote on a reading that does not exist, by the reading's owner
\* or by a user who has voted on it ends refused at once, and a refused
\* castVote (these, a bad vote value, 'incorrect' without a suggested value)
\* changes no table and leaves nothing in its session to be written.
C13_RejectedUnchanged ==
    [][ \A t \in DOMAIN txn :
          (txn[t].pc \in {"idle", "done"} /\ txn'[t] # txn[t])
          => LET u == txn'[t].user
                 r == txn'[t].reading
             IN  /\ ( IF r \notin DOMAIN readings THEN TRUE
                      ELSE \/ readings[r].user_id = u
                           \/ BagCardinality(VotesOfPair(votes, r, u)) > 0 )
                    => txn'[t].resp \in Rejections
                 /\ txn'[t].resp \in Rejections
                    => /\ txn'[t].pc = "done"
                       /\ txn'[t].pending = EmptyBag
                       /\ txn'[t].objs = NoObjects
                       /\ users' = users
                       /\ readings' = readings
                       /\ votes' = votes
      ]_vars

\* One castVote was refused for a reading that does not exist and another
\* as a second vote.
C13_Witness ==
    \E t1, t2 \in DOMAIN txn :
        /\ txn[t1].pc = "done" /\ txn[t1].resp = "404"
        /\ txn[t2].pc = "done" /\ txn[t2].resp = "400_duplicate"

\* C14: no page of any verifier's queue, whatever the filter and the limit,
\* holds a reading the verifier owns or has voted on, or that is not pending,
\* or that has 3 or more votes.
C14_QueueExclusion ==
    \A x \in DOMAIN users, type \in QueueTypes, limit \in QueueLimits :
      \A page \in QueuePages(x, type, limit) : \A r \in page :
        /\ readings[r].user_id # x
        /\ \A w \in BagToSet(votes) :
             ~(w.reading_id = r /\ w.verifier_id = x)
        /\ readings[r].verification_status = "pending"
        /\ BagCardinality([w \in {v \in BagToSet(votes) : v.reading_id = r}
                             |-> votes[w]]) < 3

\* A pending reading with two votes is in the queue of a user who has not
\* voted on it, and in the queue of neither its owner nor one of its voters.
C14_Witness ==
    \E x, y \in DOMAIN users : \E r \in DOMAIN readings :
        /\ QueuePages(x, Null, 1) = {{r}}
        /\ BagCardinality(VotesOfReading(votes, r)) = 2
        /\ HasVoted(y, r)
        /\ QueuePages(y, Null, 1) = {{}}
        /\ QueuePages(readings[r].user_id, Null, 1) = {{}}

\* C15: total_available is the number of readings that are eligible for the
\* verifier: not theirs, not voted on by them, pending, with fewer than
\* VOTES_REQUIRED votes.
C15_TotalAvailable ==
    \A x \in DOMAIN users :
        TotalAvailable(x) =
          Cardinality({r \in DOMAIN readings :
              /\ readings[r].user_id # x
              /\ ~HasVoted(x, r)
              /\ readings[r].verification_status = "pending"
              /\ BagCardinality(VotesOfReading(votes, r)) < VOTES_REQUIRED})

\* The rows every finalize check selected are rows of the table, stored
\* trust score included.
SeenStored ==
    \A t \in DOMAIN txn : \A w \in BagToSet(txn[t].seen) :
        w \in BagToSet(votes) /\ txn[t].seen[w] <= votes[w]

\* C16: the vote a castVote creates carries the trust score its verifier has
\* at that moment; no step changes or removes a stored vote; and the rows a
\* finalize check weighs are the stored rows with their stored trust score.
C16_SnapshotImmutable ==
    [][ /\ \A t \in DOMAIN txn :
              (txn[t].pc \in {"idle", "done"} /\ txn'[t].pc = "finalize")
              => \A w \in BagToSet(txn'[t].pending) :
                   /\ w.verifier_id = txn'[t].user
                   /\ w.verifier_trust_score = users[txn'[t].user].trust_score
        /\ \A t \in DOMAIN txn :
              (txn[t].pc = "commit" /\ txn'[t].pc = "done"
                 /\ txn'[t].resp = "200")
              => votes' = votes (+) txn[t].pending
        /\ \A w \in BagToSet(votes) :
              w \in BagToSet(votes') /\ votes'[w] >= votes[w]
        /\ SeenStored'
      ]_vars

\* A finalize check has decided on the votes of a reading one of whose
\* voters has a live trust score that is no longer the stored one.
C16_Witness ==
    \E t \in DOMAIN txn :
        /\ txn[t].pc = "fanout"
        /\ \E w \in BagToSet(txn[t].seen) :
             users[w.verifier_id].trust_score # w.verifier_trust_score

\* C17: every vote references a reading that exists, and the commit of a
\* delete_reading whose reading has got no vote since the session loaded
\* its votes removes the reading and leaves no vote of it.
C17_CascadeDelete ==
    [][ /\ \A w \in BagToSet(votes') : w.reading_id \in DOMAIN readings'
        /\ \A t \in DOMAIN txn :
              LET r == txn[t].reading IN
              ( /\ txn[t].pc = "delete"
                /\ txn'[t].pc = "done"
                /\ r \in DOMAIN readings
                /\ \A w \in BagToSet(votes) :
                     w.reading_id = r => w \in BagToSet(txn[t].seen) )
              => /\ txn'[t].resp = "204"
                 /\ r \notin DOMAIN readings'
                 /\ \A w \in BagToSet(votes') : w.reading_id # r
      ]_vars

\* A delete_reading has removed a reading together with its four votes, one
\* of which was committed while another delete_reading was refused.
C17_Witness ==
    \E t1, t2 \in DOMAIN txn :
        /\ txn[t1].pc = "done" /\ txn[t1].resp = "204"
        /\ BagCardinality(txn[t1].seen) = 4
        /\ txn[t1].reading \notin DOMAIN readings
        /\ votes = EmptyBag
        /\ txn[t2].pc = "done" /\ txn[t2].resp \in {"404", "500_integrity"}

\* C18: no user is referred by themselves, and a user's referral count and
\* referral XP grow only in a step in which another user becomes referred by
\* them: a code that is the caller's own in any letter-casing changes nothing.
C18_NoSelfReferral ==
    [][ \A u \in DOMAIN referrals :
          /\ referrals'[u].referred_by_id # Some(u)
          /\ ( \/ referrals'[u].referral_count # referrals[u].referral_count
               \/ users'[u].xp # users[u].xp )
             => \E x \in DOMAIN referrals \ {u} :
                  /\ referrals[x].referred_by_id = Null
                  /\ referrals'[x].referred_by_id = Some(u)
      ]_vars

\* The decision the finalize check of session t took on the rows it selected
\* is the one of the decision function: 'verified' iff weighted_correct /
\* total_weight >= 0.67, else 'rejected' iff weighted_incorrect /
\* total_weight >= 0.67, else 'disputed' iff it selected 6 votes or more,
\* else none.
DecidedAsStated(t) ==
    LET seen == txn[t].seen
        n    == BagCardinality(seen)
        tw   == TotalWeight(seen)
        wc   == WeightedFor(seen, "correct")
        wi   == WeightedFor(seen, "incorrect")
        wu   == WeightedFor(seen, "unclear")
        v    == wc * 100 >= 67 * tw
        j    == ~v /\ wi * 100 >= 67 * tw
        d    == ~v /\ ~j /\ n >= 6
    IN  /\ tw = wc + wi + wu
        /\ txn[t].new_status =
             (IF v THEN "verified" ELSE IF j THEN "rejected"
              ELSE IF d THEN "disputed" ELSE "none")

\* C19: every finalize check that selected at least 3 votes of total weight
\* above 0 decided as the decision function states.
C19_DecisionFunction ==
    \A t \in DOMAIN txn :
        ( /\ txn[t].pc \in {"fanout", "commit", "done"}
          /\ txn[t].resp \in {"", "200"}
          /\ BagCardinality(txn[t].seen) >= 3
          /\ TotalWeight(txn[t].seen) > 0 )
        => DecidedAsStated(t)

\* A finalize check has verified a reading whose correct ratio is the
\* threshold exactly, with an 'unclear' vote in the total weight.
C19_Witness ==
    \E t \in DOMAIN txn :
        /\ Closed200(t)
        /\ txn[t].new_status = "verified"
        /\ WeightedFor(txn[t].seen, "correct") * 100
             = 67 * TotalWeight(txn[t].seen)
        /\ WeightedFor(txn[t].seen, "unclear") > 0
        /\ readings[txn[t].reading].verification_status = "verified"

\* C20: a finalize check that selected at least 3 votes, all of them cast at
\* trust 0 (total_weight 0), decides nothing, and the reading is pending
\* when its session has committed.
C20_ZeroWeightAborts ==
    \A t \in DOMAIN txn :
        ( /\ txn[t].pc \in {"fanout", "commit", "done"}
          /\ txn[t].resp \in {"", "200"}
          /\ BagCardinality(txn[t].seen) >= 3
          /\ \A w \in BagToSet(txn[t].seen) : w.verifier_trust_score = 0 )
        => /\ txn[t].new_status = "none"
           /\ txn[t].pc = "done"
              => readings[txn[t].reading].verification_status = "pending"

\* The number of votes user u has in the table.
VotesCastBy(u) ==
    BagCardinality([w \in {x \in BagToSet(votes) : x.verifier_id = u}
                      |-> votes[w]])

\* C21: every user's verifications-performed counter is the number of votes
\* the user has cast, and the user's XP holds 5 points for each of them,
\* also when the user voted on different readings in sessions side by side.
C21_VoteAccounting ==
    \A u \in DOMAIN users :
        /\ users[u].verifications_performed = VotesCastBy(u)
        /\ u # 1 => users[u].xp >= XP_FOR_VERIFICATION * VotesCastBy(u)

\* C22: the commit of a castVote whose finalize check resolved the reading
\* as 'disputed' stores that status and changes no trust score and no
\* verified-readings counter, and no XP but the caller's 5 points for the
\* vote.
C22_DisputedNeutral ==
    [][ \A t \in DOMAIN txn :
          ( /\ txn[t].pc = "commit"
            /\ txn[t].new_status = "disputed"
            /\ txn'[t].pc = "done"
            /\ txn'[t].resp = "200" )
          => /\ readings'[txn[t].reading].verification_status = "disputed"
             /\ \A u \in DOMAIN users :
                  /\ users'[u].trust_score = users[u].trust_score
                  /\ users'[u].verified_readings = users[u].verified_readings
                  /\ users'[u].xp = users[u].xp +
                       (IF u = txn[t].user THEN XP_FOR_VERIFICATION ELSE 0)
      ]_vars

\* A castVote whose finalize check selected three 'correct' and three
\* 'incorrect' votes has committed, and the reading is disputed.
C22_Witness ==
    \E t \in DOMAIN txn :
        /\ Closed200(t)
        /\ txn[t].new_status = "disputed"
        /\ BagCardinality(txn[t].seen) = 6
        /\ readings[txn[t].reading].verification_status = "disputed"

\* C23: the commit of a castVote whose finalize check resolved the reading
\* as 'verified' raises the owner's verified-readings counter by 1 and the
\* owner's XP by 5; the commit of one that resolved it as 'rejected' or
\* 'disputed' changes neither.
C23_OwnerEffects ==
    [][ \A t \in DOMAIN txn :
          LET owner == readings[txn[t].reading].user_id IN
          ( /\ txn[t].pc = "commit"
            /\ txn[t].new_status # "none"
            /\ txn'[t].pc = "done"
            /\ txn'[t].resp = "200" )
          => IF txn[t].new_status = "verified"
               THEN /\ users'[owner].verified_readings =
                         users[owner].verified_readings + 1
                    /\ users'[owner].xp = users[owner].xp + 5
               ELSE /\ users'[owner].verified_readings =
                         users[owner].verified_readings
                    /\ users'[owner].xp = users[owner].xp
      ]_vars

\* A castVote whose finalize check selected three 'correct' votes has
\* committed: the reading is verified, its owner has a verified-readings
\* counter of 1 and 5 XP.
C23_Witness ==
    \E t \in DOMAIN txn :
        /\ Closed200(t)
        /\ txn[t].new_status = "verified"
        /\ BagCardinality(txn[t].seen) = 3
        /\ readings[txn[t].reading].verification_status = "verified"
        /\ users[readings[txn[t].reading].user_id].verified_readings = 1
        /\ users[readings[txn[t].reading].user_id].xp = XP_OWNER_BONUS

NumVotes(r) ==
    BagCardinality([w \in {v \in BagToSet(votes) : v.reading_id = r}
                      |-> votes[w]])

\* C25: every result of any verifier's queue holds at most limit readings,
\* all of them if fewer are eligible, in the order of their vote count
\* descending (readings without votes last) and, among equal vote counts,
\* of their confidence descending; no eligible reading that is left out
\* sorts before one that is returned.
C25_QueueOrdering ==
    \A x \in DOMAIN users, type \in QueueTypes, limit \in QueueLimits :
      LET rows == {r \in DOMAIN readings : Eligible(x, r, type)} IN
      \A page \in QueueOrders(x, type, limit) :
        /\ Len(page) <= limit
        /\ Len(page) = limit \/ Len(page) = Cardinality(rows)
        /\ \A i \in 1..Len(page) :
             /\ page[i] \in rows
             /\ \A j \in 1..Len(page) : i < j =>
                  \/ NumVotes(page[i]) > NumVotes(page[j])
                  \/ /\ NumVotes(page[i]) = NumVotes(page[j])
                     /\ readings[page[i]].confidence
                          >= readings[page[j]].confidence
             /\ \A q \in rows \ {page[k] : k \in 1..Len(page)} :
                  \/ NumVotes(page[i]) > NumVotes(q)
                  \/ /\ NumVotes(page[i]) = NumVotes(q)
                     /\ readings[page[i]].confidence >= readings[q].confidence

\* Readings 1 and 2 both have two votes: user 4 gets reading 2, of the higher
\* confidence, before reading 1, and reading 2 alone with a limit of 1;
\* verifier 5, who has voted on reading 2 only, gets reading 1.
C25_Witness ==
    /\ NumVotes(1) = 2 /\ NumVotes(2) = 2
    /\ QueueOrders(4, Null, 2) = {<<2, 1>>}
    /\ QueueOrders(4, Null, 1) = {<<2>>}
    /\ QueueOrders(5, Null, 2) = {<<1>>}

\* C26: every reading that is stored has usage_since_last exactly when its
\* meter had a reading before and both that reading and the new one have a
\* numeric value (0 included), and days_since_last exactly when its meter
\* had a reading before; the first reading of a meter has neither and is not
\* flagged.
C26_UsagePresence ==
    [][ \A r \in DOMAIN readings' \ DOMAIN readings :
          LET prior == PrevReadings(readings, readings'[r].meter_id) IN
          /\ readings'[r].usage_since_last # Null
             <=> \E p \in prior : /\ readings'[r].numeric_value # Null
                                  /\ readings[p].numeric_value # Null
          /\ readings'[r].days_since_last # Null <=> prior # {}
          /\ prior = {} => ~readings'[r].flagged_for_review
      ]_vars

\* C27: no meter has more than 50 sample readings, and every submission by
\* create_reading with a non-empty normalized value leaves its meter's
\* samples as they were, without the oldest if they were 50, followed by
\* that value.
C27_BoundedSamples ==
    [][ /\ \A m \in DOMAIN meters' : Len(meters'[m].sample_readings) <= 50
        /\ \A r \in DOMAIN readings' \ DOMAIN readings :
             LET m   == readings'[r].meter_id
                 was == meters[m].sample_readings
                 now == meters'[m].sample_readings
             IN  ( /\ readings'[r].capture_method = "live"
                   /\ readings'[r].normalized_value # "" )
                 => /\ now # <<>>
                    /\ now[Len(now)] = readings'[r].normalized_value
                    /\ now = (IF Len(was) < 50 THEN was ELSE Tail(was))
                               \o <<readings'[r].normalized_value>>
      ]_vars

\* C28: when the verifiers vote on what their queues serve, a pending
\* reading that holds three votes, all of them 'correct', eventually leaves
\* 'pending'.
C28_QueueLiveness ==
    ( /\ readings[1].verification_status = "pending"
      /\ NumVotes(1) = 3
      /\ CountSide(votes, 1, "correct") = 3 )
    ~> readings[1].verification_status # "pending"

\* C29: get_verification_status reports consensus_reached for a reading
\* exactly when the reading's status is 'verified' or 'rejected'.
C29_StatusConsistency ==
    \A r \in DOMAIN readings :
        ConsensusReached(r)
        <=> readings[r].verification_status \in {"verified", "rejected"}

\* C30: for every verifier (a user who owns no reading, has submitted none
\* and has referred nobody), the xp_earned of the history endpoint is the
\* XP the user has.
C30_HistoryAccounting ==
    \A u \in DOMAIN users :
        ( /\ \A r \in DOMAIN readings : readings[r].user_id # u
          /\ users[u].total_readings = 0
          /\ referrals[u].referral_count = 0 )
        => XpEarned(u) = users[u].xp

====
